---- MODULE Spec2Model ----
(***************************************************************************)
(* Model of the chat-session engine of crates/assistant2/src/assistant2.rs *)
(* (struct AssistantChat): the transcript, the two id allocators, submit,  *)
(* truncation, context population and the streaming completion run.        *)
(*                                                                         *)
(* Every step of a background task is one action: a task spawned with      *)
(* cx.spawn runs on the foreground executor, so between two awaits it is   *)
(* atomic with respect to the session.                                     *)
(***************************************************************************)
EXTENDS Integers, Sequences, FiniteSets, TLC

\* ----- bounds of the model ------------------------------------------------
MaxMessageId == 4   \* largest MessageId the allocator hands out
MaxChunks == 2      \* chunks one stream yields before it ends or fails
MaxHits == 2        \* hits one search returns (never more than TopK)
MaxContexts == 1    \* ContextIds the allocator hands out
MaxTruncates == 1   \* direct calls of truncate_messages in one behaviour
MaxResubmits == 3   \* ContextIds handed out in the session of resubmissions

\* ----- program constants --------------------------------------------------
TopK == 4           \* search(&query, 4, cx)

None == 0 - 1       \* Option::None of an id
Modes == {"Simple", "CurrentFile", "Codebase"}
Chunks == {"a", "b"}
\* the k-th chunk a stream of the provider yields
StreamChunk(k) == IF k % 2 = 1 THEN "a" ELSE "b"
StreamErrors == {"stream error"}
Outcomes == {"ok", "err"}   \* "err": abs_path? or fs.load(..).await? failed
Texts == {"", "q"}          \* what the user may have typed into an editor

VARIABLES
    messages,            \* AssistantChat::messages
    next_message_id,     \* AssistantChat::next_message_id
    next_context_id,     \* AssistantChat::next_context_id
    pending_completion,  \* AssistantChat::pending_completion: 0 = None, r = Some(task of run r)
    runs,                \* the tasks spawned by submit, in spawn order
    focus,               \* id of the user message whose editor holds the window focus, or None
    panicked,            \* an expect()/unreachable!() was hit
    issued,              \* history: the ids handed out by the two allocators
    truncations,         \* history: the number of direct calls of truncate_messages
    lastOp               \* history: the operation that produced this state

vars == <<messages, next_message_id, next_context_id, pending_completion,
          runs, focus, panicked, issued, truncations, lastOp>>

\* ----- helpers ------------------------------------------------------------
Min(a, b) == IF a < b THEN a ELSE b

Range(s) == {s[i] : i \in 1..Len(s)}

RECURSIVE Concat(_)
Concat(ss) == IF ss = <<>> THEN "" ELSE ss[1] \o Concat(Tail(ss))

Op(name, id, mode) == [op |-> name, id |-> id, mode |-> mode]

\* ----- ids ----------------------------------------------------------------
\* post_inc returns the current value and advances the counter by one.
MessageIdPostIncReuse(counter) == [id |-> counter, next |-> counter]
MessageIdPostInc(counter) == [id |-> counter, next |-> counter + 1]

ContextIdPostInc(counter) == [id |-> counter, next |-> counter + 1]

\* ----- data model ---------------------------------------------------------
\* RichText::new(block, &[], registry): the rendered form is a function of
\* the text it is built from; RichText::default() is the form of no text.
RichTextNew(block) == [block |-> block]
RichTextDefault == RichTextNew("")
\* the `text` field of a RichText: the text it was built from
RichTextText(rich) == rich.block

\* UserMessage { id, body: a fresh empty editor, contexts: Vec::new() }; body
\* is the text of the editor
UserMessage(id) == [kind |-> "User", id |-> id, body |-> "", contexts |-> <<>>]

\* AssistantMessage { id, body: RichText::default(), error: None }
AssistantMessagePlaceholder(id) ==
    [kind |-> "Assistant", id |-> id, body |-> RichTextNew("..."), error |-> <<>>]
AssistantMessage(id) ==
    [kind |-> "Assistant", id |-> id, body |-> RichTextDefault, error |-> <<>>]

\* AssistantContext::codebase(id)
CodebaseContext(id) == [id |-> id, excerpts |-> <<>>, pending |-> TRUE]

\* CodebaseExcerpt built from the search hit at position ix of the results
CodebaseExcerpt(ix) == [hit |-> ix]

\* CodebaseContext::populate
PopulateKeepPending(context, excerpts) == [context EXCEPT !.excerpts = excerpts]
Populate(context, excerpts) ==
    [context EXCEPT !.excerpts = excerpts, !.pending = FALSE]

\* ----- lookups ------------------------------------------------------------
\* focused_message_id: the first user message whose editor contains the focus
FocusedMessageIdFallback(msgs, f) ==
    LET hit == {i \in 1..Len(msgs) : msgs[i].kind = "User" /\ msgs[i].id = f}
        users == {i \in 1..Len(msgs) : msgs[i].kind = "User"}
    IN  IF hit # {} THEN f
        ELSE IF users # {} THEN msgs[CHOOSE i \in users : \A j \in users : j <= i].id
        ELSE None
FocusedMessageId(msgs, f) ==
    LET hit == {i \in 1..Len(msgs) : msgs[i].kind = "User" /\ msgs[i].id = f}
    IN  IF hit = {} THEN None
        ELSE msgs[CHOOSE i \in hit : \A j \in hit : i <= j].id

\* user_message: index of the first user message with that id, 0 when the
\* expect("User message not found") would fire
UserMessageIndex(msgs, message_id) ==
    LET hit == {i \in 1..Len(msgs) :
                    msgs[i].kind = "User" /\ msgs[i].id = message_id}
    IN  IF hit = {} THEN 0 ELSE CHOOSE i \in hit : \A j \in hit : i <= j

\* codebase_context: index of the context inside the first user message with
\* that id, 0 when the expect("Codebase context not found") would fire
CodebaseContextIndex(msgs, message_id, context_id) ==
    LET u == UserMessageIndex(msgs, message_id)
    IN  IF u = 0 THEN 0
        ELSE LET cs == msgs[u].contexts
                 hit == {k \in 1..Len(cs) : cs[k].id = context_id}
             IN  IF hit = {} THEN 0
                 ELSE CHOOSE k \in hit : \A j \in hit : k <= j

\* ----- truncate_messages --------------------------------------------------
\* position(): index of the first message (user or assistant) with the id
Position(msgs, last_message_id) ==
    LET hit == {i \in 1..Len(msgs) : msgs[i].id = last_message_id}
    IN  IF hit = {} THEN 0 ELSE CHOOSE i \in hit : \A j \in hit : i <= j

TruncateMessagesKeepAll(msgs, last_message_id) == msgs
TruncateMessagesExclusive(msgs, last_message_id) ==
    LET index == Position(msgs, last_message_id)
    IN  IF index # 0 THEN SubSeq(msgs, 1, index - 1) ELSE msgs
TruncateMessagesPop(msgs, last_message_id) ==
    LET index == Position(msgs, last_message_id)
    IN  IF index # 0 THEN SubSeq(msgs, 1, Len(msgs) - 1) ELSE msgs
\* messages.truncate(index + 1) with the 0-based index of the code
TruncateMessages(msgs, last_message_id) ==
    LET index == Position(msgs, last_message_id)
    IN  IF index # 0 THEN SubSeq(msgs, 1, index) ELSE msgs

\* ----- populate_context_on_submit (the synchronous part) ------------------
\* Result: the transcript with the context attached, the advanced counter,
\* the id of the new context (None for the modes that attach nothing) and
\* the position the returned task starts in.
PopulateContextOnSubmitReplace(msgs, submitted_id, mode, counter) ==
    IF mode \in {"Simple", "CurrentFile"}
    THEN [messages |-> msgs, next_context_id |-> counter,
          context_id |-> None, pc |-> "ready"]
    ELSE LET alloc == ContextIdPostInc(counter)
             u == UserMessageIndex(msgs, submitted_id)
         IN  [messages |-> [msgs EXCEPT ![u].contexts = <<CodebaseContext(alloc.id)>>],
              next_context_id |-> alloc.next,
              context_id |-> alloc.id, pc |-> "searching"]
PopulateContextOnSubmitNoAwait(msgs, submitted_id, mode, counter) ==
    IF mode \in {"Simple", "CurrentFile"}
    THEN [messages |-> msgs, next_context_id |-> counter,
          context_id |-> None, pc |-> "ready"]
    ELSE LET alloc == ContextIdPostInc(counter)
             u == UserMessageIndex(msgs, submitted_id)
         IN  [messages |-> [msgs EXCEPT ![u].contexts =
                                Append(@, CodebaseContext(alloc.id))],
              next_context_id |-> alloc.next,
              context_id |-> alloc.id, pc |-> "ready"]
PopulateContextOnSubmitAnyMode(msgs, submitted_id, mode, counter) ==
    IF mode = "Simple"
    THEN [messages |-> msgs, next_context_id |-> counter,
          context_id |-> None, pc |-> "ready"]
    ELSE LET alloc == ContextIdPostInc(counter)
             u == UserMessageIndex(msgs, submitted_id)
         IN  [messages |-> [msgs EXCEPT ![u].contexts =
                                Append(@, CodebaseContext(alloc.id))],
              next_context_id |-> alloc.next,
              context_id |-> alloc.id, pc |-> "searching"]
PopulateContextOnSubmit(msgs, submitted_id, mode, counter) ==
    IF mode \in {"Simple", "CurrentFile"}
    THEN [messages |-> msgs, next_context_id |-> counter,
          context_id |-> None, pc |-> "ready"]
    ELSE LET alloc == ContextIdPostInc(counter)
             u == UserMessageIndex(msgs, submitted_id)
         IN  [messages |-> [msgs EXCEPT ![u].contexts =
                                Append(@, CodebaseContext(alloc.id))],
              next_context_id |-> alloc.next,
              context_id |-> alloc.id, pc |-> "searching"]

\* ----- tasks --------------------------------------------------------------
\* The state of the future of one submit: the captured ids, the position it
\* is suspended at and its locals.  hits, ok_hits, received and failure are
\* history: what the search, the loads and the stream have delivered to it.
NewRun(user, assistant, context_id, pc) ==
    [user |-> user, assistant |-> assistant,
     context_id |-> context_id, pc |-> pc,
     hits |-> None, ok_hits |-> {},
     payload |-> <<>>,
     body |-> "", received |-> <<>>, failure |-> <<>>]

Live(run) == run.pc \notin {"settled", "cancelled"}

\* Assigning pending_completion drops the Task it held.  A gpui Task that is
\* dropped without detach() is cancelled: its future, with the populate task
\* it owns, is dropped at the await it is suspended at and never polled again.
DropTaskDetached(rs, handle) == rs
DropTask(rs, handle) ==
    IF handle # 0 /\ Live(rs[handle])
    THEN [rs EXCEPT ![handle] = NewRun(None, None, None, "cancelled")]
    ELSE rs

\* The history kept about a task that has finished is dropped with its turn.
Forget(rs, msgs) ==
    [r \in 1..Len(rs) |->
        IF rs[r].pc = "settled" /\ Position(msgs, rs[r].assistant) = 0
        THEN NewRun(None, None, None, "settled")
        ELSE rs[r]]

\* ----- submit -------------------------------------------------------------
\* submit, in a session that hands out at most max_contexts ContextIds
SubmitWithin(mode, max_contexts) ==
    /\ ~panicked
    /\ LET focused_message_id == FocusedMessageId(messages, focus)
       IN  IF focused_message_id = None
           THEN \* log::error!(...); return
                /\ lastOp' = Op("submit", None, mode)
                /\ UNCHANGED <<messages, next_message_id, next_context_id,
                               pending_completion, runs, focus, panicked, issued,
                               truncations>>
           ELSE \* room for the ids of the assistant turn and of the user turn
                \* that follows it
                /\ next_message_id + 1 <= MaxMessageId
                /\ mode = "Codebase" => next_context_id < max_contexts
                /\ LET truncated == TruncateMessages(messages, focused_message_id)
                       alloc == MessageIdPostInc(next_message_id)
                       pushed == Append(truncated, AssistantMessage(alloc.id))
                       pop == PopulateContextOnSubmit(pushed, focused_message_id,
                                                      mode, next_context_id)
                   IN  IF mode = "Codebase"
                          /\ UserMessageIndex(pushed, focused_message_id) = 0
                       THEN \* self.user_message(submitted_id): expect(..) fires
                            /\ panicked' = TRUE
                            /\ messages' = pushed
                            /\ next_message_id' = alloc.next
                            /\ next_context_id' = ContextIdPostInc(next_context_id).next
                            /\ lastOp' = Op("submit", focused_message_id, mode)
                            /\ issued' = [msg |-> Append(issued.msg, alloc.id),
                                          ctx |-> Append(issued.ctx, next_context_id)]
                            /\ UNCHANGED <<pending_completion, runs, focus, truncations>>
                       ELSE
                       /\ messages' = pop.messages
                       /\ next_message_id' = alloc.next
                       /\ next_context_id' = pop.next_context_id
                       /\ runs' = Append(Forget(DropTask(runs, pending_completion),
                                                pop.messages),
                                         NewRun(focused_message_id, alloc.id,
                                                pop.context_id, pop.pc))
                       /\ pending_completion' = Len(runs) + 1
                       /\ issued' = [msg |-> Append(issued.msg, alloc.id),
                                     ctx |-> IF pop.context_id = None THEN issued.ctx
                                             ELSE Append(issued.ctx, pop.context_id)]
                       /\ lastOp' = Op("submit", focused_message_id, mode)
                       /\ UNCHANGED <<focus, panicked, truncations>>

Submit(mode) == SubmitWithin(mode, MaxContexts)

\* ----- context population (the task populate_context_on_submit returns) ---
\* join_all: the results in the order of the futures it was given, whatever
\* the order they completed in
JoinAllCompletionOrder(n, completed) == completed
JoinAll(n, completed) ==
    [i \in 1..n |-> CHOOSE e \in Range(completed) : e.ix = i]

\* into_iter().filter_map(|result| result.log_err()).collect()
RECURSIVE FilterMapOk(_)
FilterMapAllOrNothing(results) ==
    IF \A i \in 1..Len(results) : results[i].outcome = "ok"
    THEN [i \in 1..Len(results) |-> CodebaseExcerpt(results[i].ix)]
    ELSE <<>>
FilterMapOk(results) ==
    IF results = <<>> THEN <<>>
    ELSE (IF results[1].outcome = "ok"
          THEN <<CodebaseExcerpt(results[1].ix)>> ELSE <<>>)
         \o FilterMapOk(Tail(results))

\* this.update(|this, cx| this.codebase_context(..).populate(..)) of run r,
\* once all n resolutions have completed
PopulateStep(r, n, completed) ==
    LET u == UserMessageIndex(messages, runs[r].user)
        c == CodebaseContextIndex(messages, runs[r].user, runs[r].context_id)
        excerpts == FilterMapOk(JoinAll(n, completed))
    IN  IF c = 0
        THEN /\ panicked' = TRUE
             /\ runs' = [runs EXCEPT ![r].hits = n]
             /\ UNCHANGED messages
        ELSE /\ messages' = [messages EXCEPT ![u].contexts[c] = Populate(@, excerpts)]
             /\ runs' = [runs EXCEPT ![r].pc = "ready", ![r].hits = n,
                                     ![r].ok_hits = {e.ix : e \in {x \in Range(completed) :
                                                                    x.outcome = "ok"}}]
             /\ UNCHANGED panicked

\* results.await: the search, asked for 4 results, returns its n hits
SearchReturns(r, n) ==
    /\ ~panicked
    /\ r \in 1..Len(runs) /\ runs[r].pc = "searching"
    /\ n <= TopK
    /\ IF n = 0
       THEN PopulateStep(r, 0, <<>>)
       ELSE /\ runs' = [runs EXCEPT ![r].pc = "resolving", ![r].hits = n]
            /\ UNCHANGED <<messages, panicked>>
    /\ lastOp' = Op("step", None, "")
    /\ UNCHANGED truncations
    /\ UNCHANGED <<next_message_id, next_context_id, pending_completion, focus, issued>>

\* The completions of the n per-hit futures (abs_path?, fs.load(..).await?):
\* every order of the n hits, each with its outcome
Completions(n) ==
    {c \in [1..n -> [ix : 1..n, outcome : Outcomes]] :
        \A i, j \in 1..n : i # j => c[i].ix # c[j].ix}

\* join_all(excerpts).await: the per-hit futures complete in the order
\* `completed`; the task then applies the result in one update
ResolveHits(r) ==
    /\ ~panicked
    /\ r \in 1..Len(runs) /\ runs[r].pc = "resolving"
    /\ \E completed \in Completions(runs[r].hits) :
            /\ PopulateStep(r, runs[r].hits, completed)
            /\ lastOp' = Op("resolve", completed[1].ix, "")
    /\ UNCHANGED truncations
    /\ UNCHANGED <<next_message_id, next_context_id, pending_completion, focus, issued>>

\* ----- the completion run -------------------------------------------------
\* body.push_str(&chunk)
PushStrFront(body, chunk) == chunk \o body
PushStr(body, chunk) == body \o chunk

\* completion_messages: one CompletionMessage per message, in order
CompletionMessagesWithContexts(msgs) ==
    [i \in 1..Len(msgs) |->
        IF msgs[i].kind = "User"
        THEN [role |-> "User",
              body |-> IF msgs[i].contexts = <<>> THEN msgs[i].body
                       ELSE msgs[i].body \o "+context"]
        ELSE [role |-> "Assistant", body |-> RichTextText(msgs[i].body)]]
CompletionMessages(msgs) ==
    [i \in 1..Len(msgs) |->
        IF msgs[i].kind = "User"
        THEN [role |-> "User", body |-> msgs[i].body]
        ELSE [role |-> "Assistant", body |-> RichTextText(msgs[i].body)]]

\* populate.await? is over; CompletionProvider::complete(..) is called with
\* the messages rendered in the same update
OpenStream(r) ==
    /\ ~panicked
    /\ r \in 1..Len(runs) /\ runs[r].pc = "ready"
    /\ runs' = [runs EXCEPT ![r].pc = "opening",
                            ![r].payload = CompletionMessages(messages)]
    /\ lastOp' = Op("step", None, "")
    /\ UNCHANGED truncations
    /\ UNCHANGED <<messages, next_message_id, next_context_id, pending_completion,
                   focus, panicked, issued>>

\* completion?.await? returns the stream
StreamOpened(r) ==
    /\ ~panicked
    /\ r \in 1..Len(runs) /\ runs[r].pc = "opening"
    /\ runs' = [runs EXCEPT ![r].pc = "streaming"]
    /\ lastOp' = Op("step", None, "")
    /\ UNCHANGED truncations
    /\ UNCHANGED <<messages, next_message_id, next_context_id, pending_completion,
                   focus, panicked, issued>>

\* stream.next().await yields Some(Ok(chunk))
ApplyChunk(r, chunk) ==
    /\ ~panicked
    /\ r \in 1..Len(runs) /\ runs[r].pc = "streaming"
    /\ Len(runs[r].received) < MaxChunks
    /\ chunk = StreamChunk(Len(runs[r].received) + 1)
    /\ LET last == Len(messages)
           body == PushStr(runs[r].body, chunk)
       IN  IF last > 0 /\ messages[last].kind = "Assistant"
           THEN /\ messages' = [messages EXCEPT ![last].body = RichTextNew(body)]
                /\ runs' = [runs EXCEPT ![r].body = body,
                                        ![r].received = Append(@, chunk)]
                /\ UNCHANGED panicked
           ELSE \* unreachable!()
                /\ panicked' = TRUE
                /\ runs' = [runs EXCEPT ![r].received = Append(@, chunk)]
                /\ UNCHANGED messages
    /\ lastOp' = Op("step", None, "")
    /\ UNCHANGED truncations
    /\ UNCHANGED <<next_message_id, next_context_id, pending_completion, focus, issued>>

\* push_new_user_message(focus, cx): the new editor takes the focus when asked
PushNewUserMessageAlwaysFocus(msgs, counter, take_focus, f) ==
    LET alloc == MessageIdPostInc(counter)
    IN  [messages |-> Append(msgs, UserMessage(alloc.id)),
         next_message_id |-> alloc.next,
         id |-> alloc.id,
         focus |-> alloc.id]
PushNewUserMessage(msgs, counter, take_focus, f) ==
    LET alloc == MessageIdPostInc(counter)
    IN  [messages |-> Append(msgs, UserMessage(alloc.id)),
         next_message_id |-> alloc.next,
         id |-> alloc.id,
         focus |-> IF take_focus THEN alloc.id ELSE f]

\* message_error.replace(SharedString::from(error.to_string())) on the last
\* message, an AssistantMessage
RecordErrorClearBody(msgs, error) ==
    [msgs EXCEPT ![Len(msgs)].error = error, ![Len(msgs)].body = RichTextDefault]
RecordError(msgs, error) == [msgs EXCEPT ![Len(msgs)].error = error]

\* (a last update that records the outcome and pushes no user message)
SettleNoUserMessage(r, error) ==
    /\ messages' = IF error # <<>> THEN RecordError(messages, error) ELSE messages
    /\ runs' = [runs EXCEPT ![r].pc = "settled", ![r].failure = error]
    /\ UNCHANGED <<next_message_id, focus, issued, panicked>>
\* The last this.update of the task: `complete` has resolved with Ok (error
\* = <<>>) or with Err (error = <<message>>).
Settle(r, error) ==
    LET last == Len(messages)
        lastIsAssistant == last > 0 /\ messages[last].kind = "Assistant"
        recorded == IF error # <<>> /\ lastIsAssistant
                    THEN RecordError(messages, error)
                    ELSE messages
        u == UserMessageIndex(recorded, runs[r].user)
    IN  IF (error # <<>> /\ ~lastIsAssistant) \/ u = 0
        THEN \* unreachable!() or expect("User message not found")
             /\ panicked' = TRUE
             /\ messages' = recorded
             /\ runs' = [runs EXCEPT ![r].failure = error]
             /\ UNCHANGED <<next_message_id, focus, issued>>
        ELSE LET pushed == PushNewUserMessage(recorded, next_message_id,
                                              focus = runs[r].user, focus)
             IN  /\ messages' = pushed.messages
                 /\ next_message_id' = pushed.next_message_id
                 /\ focus' = pushed.focus
                 /\ issued' = [issued EXCEPT !.msg = Append(@, pushed.id)]
                 /\ runs' = [runs EXCEPT ![r].pc = "settled", ![r].failure = error]
                 /\ UNCHANGED panicked

\* completion?.await? fails: the stream could not be opened
OpenFails(r, message) ==
    /\ ~panicked
    /\ r \in 1..Len(runs) /\ runs[r].pc = "opening"
    /\ message \in StreamErrors
    /\ Settle(r, <<message>>)
    /\ lastOp' = Op("step", None, "")
    /\ UNCHANGED truncations
    /\ UNCHANGED <<next_context_id, pending_completion>>

\* stream.next().await yields Some(Err(..)): chunk? leaves the loop
ChunkFails(r, message) ==
    /\ ~panicked
    /\ r \in 1..Len(runs) /\ runs[r].pc = "streaming"
    /\ message \in StreamErrors
    /\ Settle(r, <<message>>)
    /\ lastOp' = Op("step", None, "")
    /\ UNCHANGED truncations
    /\ UNCHANGED <<next_context_id, pending_completion>>

\* stream.next().await yields None: the stream ended normally
StreamEnds(r) ==
    /\ ~panicked
    /\ r \in 1..Len(runs) /\ runs[r].pc = "streaming"
    /\ Settle(r, <<>>)
    /\ lastOp' = Op("step", None, "")
    /\ UNCHANGED truncations
    /\ UNCHANGED <<next_context_id, pending_completion>>

\* ----- the user ----------------------------------------------------------
\* The user moves the focus into the editor of a user message of the list.
FocusEditor(id) ==
    /\ ~panicked
    /\ id # focus
    /\ UserMessageIndex(messages, id) # 0
    /\ focus' = id
    /\ lastOp' = Op("step", None, "")
    /\ UNCHANGED truncations
    /\ UNCHANGED <<messages, next_message_id, next_context_id, pending_completion,
                   runs, panicked, issued>>

\* The user edits the text of the editor that holds the focus.
EditText(id, text) ==
    /\ ~panicked
    /\ id = focus
    /\ UserMessageIndex(messages, id) # 0
    /\ text \in Texts
    /\ text # messages[UserMessageIndex(messages, id)].body
    /\ messages' = [messages EXCEPT ![UserMessageIndex(messages, id)].body = text]
    /\ lastOp' = Op("step", None, "")
    /\ UNCHANGED <<next_message_id, next_context_id, pending_completion,
                   runs, focus, panicked, issued, truncations>>

\* The focus leaves the chat.
Blur ==
    /\ ~panicked
    /\ focus # None
    /\ focus' = None
    /\ lastOp' = Op("step", None, "")
    /\ UNCHANGED truncations
    /\ UNCHANGED <<messages, next_message_id, next_context_id, pending_completion,
                   runs, panicked, issued>>

\* truncate_messages called on its own, between two runs, with any id
Truncate(id) ==
    /\ ~panicked
    /\ \A r \in 1..Len(runs) : ~Live(runs[r])
    /\ truncations < MaxTruncates
    /\ id \in {messages[i].id : i \in 1..Len(messages)} \union {next_message_id}
    /\ messages' = TruncateMessages(messages, id)
    /\ truncations' = truncations + 1
    /\ runs' = Forget(runs, messages')
    /\ lastOp' = Op("truncate", id, "")
    /\ UNCHANGED <<next_message_id, next_context_id, pending_completion,
                   focus, panicked, issued>>

\* ----- specifications -----------------------------------------------------
\* AssistantChat::new: empty transcript, counters at 0, no task, then
\* push_new_user_message(true, cx)
Init ==
    LET pushed == PushNewUserMessage(<<>>, 0, TRUE, None)
    IN  /\ messages = pushed.messages
        /\ next_message_id = pushed.next_message_id
        /\ next_context_id = 0
        /\ pending_completion = 0
        /\ runs = <<>>
        /\ focus = pushed.focus
        /\ panicked = FALSE
        /\ issued = [msg |-> <<pushed.id>>, ctx |-> <<>>]
        /\ truncations = 0
        /\ lastOp = Op("step", None, "")

RunIds == 1..Len(runs)

Next ==
    \/ \E mode \in Modes : Submit(mode)
    \/ \E r \in RunIds, n \in {Min(MaxHits, TopK)} : SearchReturns(r, n)
    \/ \E r \in RunIds : ResolveHits(r)
    \/ \E r \in RunIds : OpenStream(r)
    \/ \E r \in RunIds : StreamOpened(r)
    \/ \E r \in RunIds, chunk \in Chunks : ApplyChunk(r, chunk)
    \/ \E r \in RunIds, message \in StreamErrors : OpenFails(r, message)
    \/ \E r \in RunIds, message \in StreamErrors : ChunkFails(r, message)
    \/ \E r \in RunIds : StreamEnds(r)
    \/ \E id \in 0..MaxMessageId : FocusEditor(id)
    \/ Blur

\* The session as the program drives it: truncation happens inside submit.
Spec == Init /\ [][Next]_vars

\* A step of a background task.  The tasks run on the foreground executor,
\* which polls a task whose await has resolved; the search, the file loads
\* and the stream each answer, and a stream yields at most MaxChunks chunks.
RunStep ==
    \/ \E r \in RunIds, n \in {Min(MaxHits, TopK)} : SearchReturns(r, n)
    \/ \E r \in RunIds : ResolveHits(r)
    \/ \E r \in RunIds : OpenStream(r)
    \/ \E r \in RunIds : StreamOpened(r)
    \/ \E r \in RunIds, chunk \in Chunks : ApplyChunk(r, chunk)
    \/ \E r \in RunIds, message \in StreamErrors : OpenFails(r, message)
    \/ \E r \in RunIds, message \in StreamErrors : ChunkFails(r, message)
    \/ \E r \in RunIds : StreamEnds(r)

\* The session with its background tasks scheduled fairly: the user submits
\* from the turn that holds the focus, at any moment, and is free to stop.
NextL ==
    \/ \E mode \in Modes : Submit(mode)
    \/ RunStep

SpecL == Init /\ [][NextL]_vars /\ WF_vars(RunStep)

\* The session with Codebase submits whose search returns nothing or all
\* TopK hits, every stream ending without a chunk.
NextC ==
    \/ \E mode \in {"Simple", "Codebase"} : Submit(mode)
    \/ \E r \in RunIds, n \in {0, TopK} : SearchReturns(r, n)
    \/ \E r \in RunIds : ResolveHits(r)
    \/ \E r \in RunIds : OpenStream(r)
    \/ \E r \in RunIds : StreamOpened(r)
    \/ \E r \in RunIds : StreamEnds(r)

SpecC == Init /\ [][NextC]_vars

\* The session of resubmissions: Codebase and Simple submits from the turn
\* that holds the focus, at any moment, every search returning one hit and
\* every stream ending without a chunk.
NextR ==
    \/ SubmitWithin("Codebase", MaxResubmits)
    \/ Submit("Simple")
    \/ \E r \in RunIds, n \in {1} : SearchReturns(r, n)
    \/ \E r \in RunIds : ResolveHits(r)
    \/ \E r \in RunIds : OpenStream(r)
    \/ \E r \in RunIds : StreamOpened(r)
    \/ \E r \in RunIds : StreamEnds(r)

SpecR == Init /\ [][NextR]_vars

\* The session without retrieval, and truncate_messages called directly
\* between its runs.
NextT ==
    \/ \E mode \in {"Simple", "CurrentFile"} : Submit(mode)
    \/ \E r \in RunIds : OpenStream(r)
    \/ \E r \in RunIds : StreamOpened(r)
    \/ \E r \in RunIds, chunk \in Chunks : ApplyChunk(r, chunk)
    \/ \E r \in RunIds, message \in StreamErrors : OpenFails(r, message)
    \/ \E r \in RunIds, message \in StreamErrors : ChunkFails(r, message)
    \/ \E r \in RunIds : StreamEnds(r)
    \/ \E id \in 0..MaxMessageId : FocusEditor(id)
    \/ Blur
    \/ \E id \in 0..(MaxMessageId + 2) : Truncate(id)

SpecT == Init /\ [][NextT]_vars

\* The session with the user editing the text of the turn that holds the
\* focus, the focus moving only as the program moves it.
NextP ==
    \/ \E mode \in Modes : Submit(mode)
    \/ \E r \in RunIds, n \in {Min(MaxHits, TopK)} : SearchReturns(r, n)
    \/ \E r \in RunIds : ResolveHits(r)
    \/ \E r \in RunIds : OpenStream(r)
    \/ \E r \in RunIds : StreamOpened(r)
    \/ \E r \in RunIds, chunk \in Chunks : ApplyChunk(r, chunk)
    \/ \E r \in RunIds, message \in StreamErrors : OpenFails(r, message)
    \/ \E r \in RunIds, message \in StreamErrors : ChunkFails(r, message)
    \/ \E r \in RunIds : StreamEnds(r)
    \/ \E id \in 0..MaxMessageId, text \in Texts : EditText(id, text)

SpecP == Init /\ [][NextP]_vars

\* ----- properties ---------------------------------------------------------
NoRunInFlight == \A r \in 1..Len(runs) : ~Live(runs[r])

\* the positions of the assistant turn and of the context of run r, 0 when gone
AssistantOf(r) == Position(messages, runs[r].assistant)
BodyOf(received) ==
    IF received = <<>> THEN RichTextDefault ELSE RichTextNew(Concat(received))

\* C1: whenever no run is in flight the transcript ends with exactly one
\* UserTurn (the last turn is a UserTurn, the one before it is not), and in
\* every state every AssistantTurn is immediately preceded by a UserTurn.
C1_TranscriptShape ==
    /\ NoRunInFlight =>
          /\ Len(messages) >= 1
          /\ messages[Len(messages)].kind = "User"
          /\ Len(messages) >= 2 => messages[Len(messages) - 1].kind # "User"
    /\ \A i \in 1..Len(messages) :
          messages[i].kind = "Assistant" => i > 1 /\ messages[i - 1].kind = "User"

\* two runs have settled, one of them with an error, and no run is in flight
C1_Witness ==
    /\ NoRunInFlight
    /\ Len(runs) = 2 /\ Len(messages) = 5
    /\ \E i \in 1..Len(messages) :
          messages[i].kind = "Assistant" /\ messages[i].error # <<>>

C3_CumulativeBody ==
    \A r \in 1..Len(runs) :
        (runs[r].pc \in {"streaming", "settled"} /\ AssistantOf(r) # 0)
            => messages[AssistantOf(r)].body = BodyOf(runs[r].received)

\* a stream of two chunks has ended normally
C3_Witness ==
    \E r \in 1..Len(runs) :
        /\ runs[r].pc = "settled" /\ runs[r].failure = <<>>
        /\ runs[r].received = <<"a", "b">>
        /\ AssistantOf(r) # 0
        /\ messages[AssistantOf(r)].body = RichTextNew("ab")

\* C4: the step in which opening the stream or reading a chunk fails leaves
\* the body of the AssistantTurn as the chunks received so far built it, sets
\* its error, which was unset, to the failure message, ends the run and
\* appends a new empty UserTurn.
C4_FailureStep ==
    [][\A r \in 1..Len(runs) :
          (/\ runs[r].pc \in {"opening", "streaming"}
           /\ r <= Len(runs') /\ runs'[r].failure # <<>>)
          => LET p == AssistantOf(r)
             IN  /\ p = Len(messages)
                 /\ messages[p].error = <<>>
                 /\ runs'[r].pc = "settled"
                 /\ runs'[r].failure \in {<<m>> : m \in StreamErrors}
                 /\ Len(messages') = p + 1
                 /\ messages'[p].error = runs'[r].failure
                 /\ messages'[p].body = BodyOf(runs[r].received)
                 /\ messages'[p].id = messages[p].id
                 /\ messages'[p + 1] = UserMessage(next_message_id)
                 /\ \A i \in 1..(p - 1) : messages'[i] = messages[i]]_vars

\* a chunk read failed after one chunk
C4_Witness ==
    \E r \in 1..Len(runs) :
        /\ runs[r].pc = "settled" /\ runs[r].failure # <<>>
        /\ runs[r].received = <<"a">>
        /\ AssistantOf(r) # 0
        /\ messages[AssistantOf(r)].body = RichTextNew("a")
        /\ messages[AssistantOf(r)].error # <<>>
        /\ messages[AssistantOf(r) + 1].kind = "User"

\* the context run r attached, and whether it is still on its turn
ContextFound(r) ==
    CodebaseContextIndex(messages, runs[r].user, runs[r].context_id) # 0
ContextOf(r) ==
    messages[UserMessageIndex(messages, runs[r].user)]
        .contexts[CodebaseContextIndex(messages, runs[r].user, runs[r].context_id)]
Populated(r) ==
    /\ runs[r].context_id # None
    /\ runs[r].pc \in {"ready", "opening", "streaming", "settled"}
    /\ ContextFound(r)

\* C5: once the resolutions of a Codebase run have completed, whichever of
\* them failed, its context is no longer pending and holds one excerpt per hit
\* that succeeded and no other, in the order of the search results; the run
\* goes on to open the stream, and its AssistantTurn carries an error only if
\* the stream failed.
C5_PartialFailure ==
    \A r \in 1..Len(runs) :
        Populated(r) =>
            LET excerpts == ContextOf(r).excerpts
            IN  /\ ContextOf(r).pending = FALSE
                /\ {excerpts[k].hit : k \in 1..Len(excerpts)} = runs[r].ok_hits
                /\ Len(excerpts) = Cardinality(runs[r].ok_hits)
                /\ \A j, k \in 1..Len(excerpts) :
                      j < k => excerpts[j].hit < excerpts[k].hit
                /\ AssistantOf(r) # 0 =>
                      (messages[AssistantOf(r)].error # <<>> => runs[r].failure # <<>>)
                /\ runs[r].pc = "ready" => runs[r].failure = <<>>

\* the first of two hits failed and the run has gone on to open the stream
C5_Witness ==
    \E r \in 1..Len(runs) :
        /\ Populated(r)
        /\ runs[r].hits = 2 /\ runs[r].ok_hits = {2}
        /\ ContextOf(r).excerpts = <<CodebaseExcerpt(2)>>
        /\ runs[r].pc = "opening"
        /\ messages[AssistantOf(r)].error = <<>>

\* C6: whatever the order in which the resolutions of the hits complete, the
\* excerpts of the populated context are in the order of the search results.
C6_SearchOrder ==
    \A i \in 1..Len(messages) :
        messages[i].kind = "User" =>
            \A c \in 1..Len(messages[i].contexts) :
                LET excerpts == messages[i].contexts[c].excerpts
                IN  \A j, k \in 1..Len(excerpts) :
                        j < k => excerpts[j].hit < excerpts[k].hit

\* the second hit completed first, both succeeded, the first is stored first
C6_Witness ==
    /\ lastOp = Op("resolve", 2, "")
    /\ \E r \in 1..Len(runs) :
          /\ Populated(r) /\ runs[r].pc = "ready"
          /\ ContextOf(r).excerpts = <<CodebaseExcerpt(1), CodebaseExcerpt(2)>>

\* the contexts of the user turn with this id in a transcript
ContextsOf(msgs, id) == msgs[UserMessageIndex(msgs, id)].contexts

\* C7: an accepted submit with mode Simple or CurrentFile leaves the ContextId
\* counter and the contexts of the addressed turn unchanged; a Codebase submit
\* allocates one ContextId and appends one pending context; no other step
\* changes the counter or the number of contexts of a turn.
C7_ModeFrame ==
    [][/\ (lastOp'.op = "submit" /\ lastOp'.id # None) =>
            IF lastOp'.mode \in {"Simple", "CurrentFile"}
            THEN /\ next_context_id' = next_context_id
                 /\ ContextsOf(messages', lastOp'.id) = ContextsOf(messages, lastOp'.id)
            ELSE /\ next_context_id' = next_context_id + 1
                 /\ ContextsOf(messages', lastOp'.id) =
                        Append(ContextsOf(messages, lastOp'.id),
                               CodebaseContext(next_context_id))
       /\ ~(lastOp'.op = "submit" /\ lastOp'.id # None) =>
            /\ next_context_id' = next_context_id
            /\ \A i \in 1..Len(messages') :
                  (messages'[i].kind = "User" /\ i <= Len(messages)) =>
                      Len(messages'[i].contexts) = Len(messages[i].contexts)]_vars

\* a CurrentFile submit from a turn that already has a context
C7_Witness ==
    /\ lastOp.op = "submit" /\ lastOp.id # None
    /\ lastOp.mode = "CurrentFile"
    /\ Len(ContextsOf(messages, lastOp.id)) = 1
    /\ next_context_id = 1

\* C8: a call of truncate_messages with the id of a turn of the transcript,
\* user or assistant, leaves exactly the turns up to and including that turn,
\* unchanged and in order; with an id no turn has it leaves the transcript
\* unchanged; in both cases the id counters are unchanged.
C8_TruncateKeepsPrefix ==
    [][lastOp'.op = "truncate" =>
          /\ IF \E k \in 1..Len(messages) : messages[k].id = lastOp'.id
             THEN \E k \in 1..Len(messages) :
                     /\ messages[k].id = lastOp'.id
                     /\ Len(messages') = k
                     /\ \A i \in 1..k : messages'[i] = messages[i]
             ELSE messages' = messages
          /\ next_message_id' = next_message_id
          /\ next_context_id' = next_context_id]_vars

\* truncation to the first turn of a longer transcript
C8_Witness ==
    /\ lastOp = Op("truncate", 0, "")
    /\ Len(messages) = 1
    /\ next_message_id >= 3

\* C9: truncating again to the id just truncated to changes nothing, and
\* truncating to the id of the last turn changes nothing.
C9_TruncateIdempotent ==
    /\ lastOp.op = "truncate" => TruncateMessages(messages, lastOp.id) = messages
    /\ Len(messages) >= 1 =>
          TruncateMessages(messages, messages[Len(messages)].id) = messages

\* truncation to an assistant turn that had a turn after it
C9_Witness ==
    /\ lastOp.op = "truncate"
    /\ messages[Len(messages)].kind = "Assistant"
    /\ messages[Len(messages)].id = lastOp.id
    /\ next_message_id > lastOp.id + 1

\* C10: a submit while no user turn of the transcript holds the focus changes
\* neither the transcript, nor the id counters, nor the pending completion,
\* nor any task.
C10_NoFocusNoOp ==
    [][(/\ lastOp'.op = "submit"
        /\ ~\E i \in 1..Len(messages) :
              messages[i].kind = "User" /\ messages[i].id = focus)
       => /\ messages' = messages
          /\ next_message_id' = next_message_id
          /\ next_context_id' = next_context_id
          /\ pending_completion' = pending_completion
          /\ runs' = runs]_vars

\* a Codebase submit without focus, after a run has settled
C10_Witness ==
    /\ lastOp = Op("submit", None, "Codebase")
    /\ focus = None
    /\ Len(messages) >= 3

\* C11: the step of an accepted submit from the addressed UserTurn U leaves
\* as transcript the turns of the previous transcript up to and including U,
\* the turns before U unchanged and U unchanged but for the contexts the
\* submit attaches to it, followed by one new AssistantTurn with a new id, an
\* empty body and no error; every turn that was after U is gone.
C11_SubmitTranscript ==
    [][(lastOp'.op = "submit" /\ lastOp'.id # None) =>
          LET k == Position(messages, lastOp'.id)
          IN  /\ k # 0 /\ messages[k].kind = "User"
              /\ Len(messages') = k + 1
              /\ \A i \in 1..(k - 1) : messages'[i] = messages[i]
              /\ [messages'[k] EXCEPT !.contexts = <<>>]
                    = [messages[k] EXCEPT !.contexts = <<>>]
              /\ messages'[k + 1] = AssistantMessage(next_message_id)
              /\ \A i \in (k + 1)..Len(messages) :
                    Position(messages', messages[i].id) = 0]_vars

\* a submit from the first turn has removed the two turns after it, one of
\* them the assistant output of an earlier cycle
C11_Witness ==
    /\ lastOp.op = "submit" /\ lastOp.id = 0
    /\ Len(messages) = 2
    /\ next_message_id = 4
    /\ messages[2] = AssistantMessage(3)

\* the chunks the run that owns the assistant turn with this id has received
StreamedText(id) ==
    LET owner == CHOOSE r \in 1..Len(runs) : runs[r].assistant = id
    IN  Concat(runs[owner].received)

C13_EverySubmitSettles ==
    \A r \in 1..MaxMessageId :
        (Len(runs) >= r) ~> (Len(runs) >= r /\ runs[r].pc = "settled")

\* C13, amended: with the tasks scheduled fairly, the run of every accepted
\* submit eventually settles or is cancelled by a later accepted submit, and
\* the step in which a run settles appends a fresh empty UserTurn as the last
\* turn of the transcript.
C13_SettlesOrSuperseded ==
    /\ \A r \in 1..MaxMessageId :
          (Len(runs) >= r) ~>
              (Len(runs) >= r /\ (\/ runs[r].pc = "settled"
                                  \/ runs[r].pc = "cancelled" /\ Len(runs) > r))
    /\ [][\A r \in 1..Len(runs) :
             (Live(runs[r]) /\ r <= Len(runs') /\ runs'[r].pc = "settled") =>
                 /\ Len(messages') = Len(messages) + 1
                 /\ messages'[Len(messages')] = UserMessage(next_message_id)
                 /\ NoRunInFlight']_vars

\* a run was cancelled by the submit of a Codebase run, which has settled
\* with an error and appended the fresh UserTurn
C13_Witness ==
    /\ Len(runs) = 2
    /\ runs[1].pc = "cancelled"
    /\ runs[2].pc = "settled" /\ runs[2].failure # <<>> /\ runs[2].context_id # None
    /\ messages[Len(messages)] = UserMessage(next_message_id - 1)

\* the live runs of a sequence of runs
LiveRuns(rs) == {r \in 1..Len(rs) : Live(rs[r])}

\* C14 as stated: no submit is accepted while an earlier run is still
\* populating or streaming.
C14_NoSubmitInFlight ==
    [][(lastOp'.op = "submit" /\ lastOp'.id # None) => NoRunInFlight]_vars

\* C14, amended: a submit is accepted whenever a user turn holds the focus,
\* also while an earlier run is populating or streaming (its addressed turn
\* keeps the focus); accepting it cancels that run and removes its
\* AssistantTurn, so the run the submit starts is the only live one.
C14_SubmitSupersedes ==
    [][(lastOp'.op = "submit" /\ lastOp'.id # None) =>
          /\ Len(runs') = Len(runs) + 1
          /\ pending_completion' = Len(runs')
          /\ LiveRuns(runs') = {Len(runs')}
          /\ \A r \in LiveRuns(runs) :
                /\ runs'[r].pc = "cancelled"
                /\ Position(messages', runs[r].assistant) = 0]_vars

\* a submit from the first turn was accepted while the run of the previous
\* submit was in flight: that run is cancelled and its turn replaced
C14_Witness ==
    /\ lastOp.op = "submit" /\ lastOp.id # None
    /\ Len(runs) = 2
    /\ runs[1].pc = "cancelled"
    /\ runs[2].pc \in {"ready", "searching"}
    /\ Len(messages) = 2 /\ messages[2] = AssistantMessage(2)

\* C15: in every reachable state at most one run is live; it is the one
\* pending_completion holds, and its AssistantTurn is the last turn of the
\* transcript, so at most one AssistantTurn is in progress.
C15_OneLiveRun ==
    /\ Cardinality(LiveRuns(runs)) <= 1
    /\ \A r \in LiveRuns(runs) :
          /\ pending_completion = r
          /\ AssistantOf(r) = Len(messages)
          /\ messages[Len(messages)].kind = "Assistant"

\* the third run is streaming after two earlier runs were superseded
C15_Witness ==
    /\ Len(runs) = 3
    /\ runs[1].pc = "cancelled" /\ runs[2].pc = "cancelled"
    /\ runs[3].pc = "streaming" /\ runs[3].received # <<>>

\* C16: a step changes the body or the error of an AssistantTurn only if it
\* is a step of the run started by the submit that created the turn, that run
\* is still live before the step, and no other run moves in it; so the turn
\* of a settled run never changes, and no run writes into the turn of another.
C16_OwnTurnOnly ==
    [][\A i \in 1..Len(messages) :
          \A j \in 1..Len(messages') :
              (/\ messages[i].kind = "Assistant"
               /\ messages'[j].id = messages[i].id
               /\ messages'[j] # messages[i]) =>
                  \E r \in 1..Len(runs) :
                      /\ runs[r].assistant = messages[i].id
                      /\ Live(runs[r])
                      /\ \/ runs'[r].received # runs[r].received
                         \/ runs'[r].failure # runs[r].failure
                      /\ \A q \in 1..Len(runs) : q # r => runs'[q] = runs[q]]_vars

\* the turn of a settled run still holds what its stream delivered while the
\* run of a later submit has written a chunk into its own turn
C16_Witness ==
    /\ Len(runs) = 2 /\ Len(messages) = 4
    /\ runs[1].pc = "settled" /\ runs[1].received = <<"a">> /\ runs[1].failure # <<>>
    /\ runs[2].pc = "streaming" /\ runs[2].received = <<"a", "b">>
    /\ messages[2].body = RichTextNew("a") /\ messages[2].error # <<>>
    /\ messages[4].body = RichTextNew("ab") /\ messages[4].error = <<>>

\* C17: a live run whose AssistantTurn or addressed UserTurn a step removes
\* from the transcript is cancelled in that step, and a cancelled run never
\* moves again, so it writes no chunk, records no error and appends no
\* UserTurn; every live run finds both its turns in the transcript.
C17_TruncationCancels ==
    [][\A r \in 1..Len(runs) :
          /\ (/\ Live(runs[r])
              /\ \/ Position(messages', runs[r].assistant) = 0
                 \/ UserMessageIndex(messages', runs[r].user) = 0)
                => runs'[r].pc = "cancelled"
          /\ runs[r].pc = "cancelled" => runs'[r] = runs[r]
          /\ Live(runs[r]) =>
                /\ Position(messages, runs[r].assistant) # 0
                /\ UserMessageIndex(messages, runs[r].user) # 0]_vars

\* the run of the first submit was cancelled while in flight; the run of the
\* second submit has settled, and the transcript holds only its output
C17_Witness ==
    /\ Len(runs) = 2
    /\ runs[1].pc = "cancelled"
    /\ runs[2].pc = "settled" /\ runs[2].received = <<"a", "b">>
    /\ Len(messages) = 3
    /\ messages[2].id = 2 /\ messages[2].body = RichTextNew("ab")
    /\ messages[3] = UserMessage(3)

\* C18: no expect() and no unreachable!() fires: every live run finds its
\* UserTurn, a run that is searching or resolving finds its context on that
\* turn, and while a run can apply a chunk or an error the last turn of the
\* transcript is its AssistantTurn.
C18_NoPanic ==
    /\ ~panicked
    /\ \A r \in LiveRuns(runs) :
          /\ UserMessageIndex(messages, runs[r].user) # 0
          /\ runs[r].pc \in {"searching", "resolving"} => ContextFound(r)
          /\ messages[Len(messages)].kind = "Assistant"
          /\ messages[Len(messages)].id = runs[r].assistant

\* a Codebase run found its context at population and its user turn at
\* settlement, after a failed stream, in a session with a superseded run
C18_Witness ==
    /\ ~panicked
    /\ \E r \in 1..Len(runs) :
          /\ runs[r].pc = "settled" /\ runs[r].failure # <<>>
          /\ runs[r].context_id # None /\ Populated(r)
          /\ runs[r].ok_hits = {1, 2}
    /\ \E q \in 1..Len(runs) : runs[q].pc = "cancelled"

\* C19: while the context a Codebase run attached is pending, the run is
\* still searching or resolving: it has rendered no message list, opened no
\* stream and applied no chunk, and its AssistantTurn is empty; so at the
\* moment the stream is opened the context has pending = false.
C19_StreamAfterContext ==
    \A r \in 1..Len(runs) :
        (runs[r].context_id # None /\ ContextFound(r) /\ ContextOf(r).pending) =>
            /\ runs[r].pc \in {"searching", "resolving"}
            /\ runs[r].payload = <<>>
            /\ runs[r].received = <<>>
            /\ messages[AssistantOf(r)] = AssistantMessage(runs[r].assistant)

\* a Codebase run has populated its context with one of two hits and has
\* then applied a chunk
C19_Witness ==
    \E r \in 1..Len(runs) :
        /\ runs[r].context_id # None /\ ContextFound(r)
        /\ ~ContextOf(r).pending
        /\ ContextOf(r).excerpts = <<CodebaseExcerpt(1)>>
        /\ runs[r].pc = "streaming" /\ runs[r].received = <<"a">>
        /\ Len(runs[r].payload) = 2

\* C20: the step of an accepted Codebase submit appends to the addressed
\* turn a context with the next ContextId, pending and without excerpts; in
\* every step a context that is not pending is left as it is, so pending
\* never returns to true and a context is populated at most once; a pending
\* context has no excerpts and no context has more than TopK = 4.
C20_ContextLifecycle ==
    [][/\ (lastOp'.op = "submit" /\ lastOp'.id # None /\ lastOp'.mode = "Codebase") =>
             LET cs == ContextsOf(messages', lastOp'.id)
             IN  /\ Len(cs) = Len(ContextsOf(messages, lastOp'.id)) + 1
                 /\ cs[Len(cs)] = [id |-> next_context_id, excerpts |-> <<>>,
                                   pending |-> TRUE]
       /\ \A i \in 1..Len(messages) :
             (/\ messages[i].kind = "User" /\ i <= Len(messages')
              /\ messages'[i].id = messages[i].id) =>
                 \A c \in 1..Len(messages[i].contexts) :
                     LET old == messages[i].contexts[c]
                         new == messages'[i].contexts[c]
                     IN  /\ new.id = old.id
                         /\ ~old.pending => new = old
                         /\ old.pending => old.excerpts = <<>>
                         /\ Len(old.excerpts) <= 4 /\ Len(new.excerpts) <= 4
                         /\ new.pending => new.excerpts = <<>>]_vars

\* a context populated with all four hits of a search is unchanged after its
\* run has settled
C20_Witness ==
    /\ NoRunInFlight
    /\ Len(messages) = 3
    /\ Len(messages[1].contexts) = 1
    /\ ~messages[1].contexts[1].pending
    /\ Len(messages[1].contexts[1].excerpts) = 4

\* the user turns of the transcript whose editor holds the focus
FocusedTurns == {i \in 1..Len(messages) :
                    messages[i].kind = "User" /\ messages[i].id = focus}

C22_PayloadTail ==
    [][\A r \in 1..Len(runs) :
          (runs[r].pc = "ready" /\ r <= Len(runs') /\ runs'[r].pc = "opening") =>
              LET payload == runs'[r].payload
                  n == Len(payload)
                  u == UserMessageIndex(messages, runs[r].user)
              IN  /\ n >= 2
                  /\ payload[n] = [role |-> "Assistant", body |-> ""]
                  /\ messages[n].id = runs[r].assistant
                  /\ u = n - 1
                  /\ payload[n - 1] = [role |-> "User", body |-> messages[u].body]]_vars

\* a Codebase run from the first turn, whose text the user has edited, has
\* opened its stream after a superseded run
C22_Witness ==
    /\ Len(runs) = 2 /\ runs[1].pc = "cancelled"
    /\ runs[2].pc = "opening" /\ runs[2].context_id # None
    /\ runs[2].payload = <<[role |-> "User", body |-> "q"],
                           [role |-> "Assistant", body |-> ""]>>

\* the ContextIds on the user turns of a transcript, in transcript order
RECURSIVE ContextIdsOf(_)
ContextIdsOf(msgs) ==
    IF msgs = <<>> THEN <<>>
    ELSE (IF msgs[1].kind = "User"
          THEN [c \in 1..Len(msgs[1].contexts) |-> msgs[1].contexts[c].id]
          ELSE <<>>)
         \o ContextIdsOf(Tail(msgs))

\* C23: no step removes or replaces a context of a UserTurn that stays in
\* the transcript: its contexts keep their ids and positions and new ones go
\* to the end; so after n Codebase submits from the turns that hold the focus
\* the transcript carries the n ContextIds handed out, each once and in
\* allocation order, those of superseded submissions, still pending, among
\* them.
C23_ContextsAppended ==
    [][/\ \A i \in 1..Len(messages) :
             (/\ messages[i].kind = "User" /\ i <= Len(messages')
              /\ messages'[i].id = messages[i].id) =>
                 /\ Len(messages'[i].contexts) >= Len(messages[i].contexts)
                 /\ \A c \in 1..Len(messages[i].contexts) :
                       messages'[i].contexts[c].id = messages[i].contexts[c].id
       /\ ContextIdsOf(messages) = [k \in 1..next_context_id |-> k - 1]
       /\ ContextIdsOf(messages) = issued.ctx]_vars

\* the first turn was submitted three times in Codebase mode, each submit
\* superseding the run before it: it carries three contexts, the first two
\* left pending, the third populated
C23_Witness ==
    /\ Len(runs) = 3
    /\ runs[1].pc = "cancelled" /\ runs[2].pc = "cancelled"
    /\ Len(messages[1].contexts) = 3
    /\ [c \in 1..3 |-> messages[1].contexts[c].id] = <<0, 1, 2>>
    /\ messages[1].contexts[1].pending /\ messages[1].contexts[2].pending
    /\ ~messages[1].contexts[3].pending
    /\ Len(messages[1].contexts[3].excerpts) = 1
====
